---- MODULE Spec2Model ----
(***************************************************************************)
(* A model of the ride-sharing discrete-event simulation: the event loop   *)
(* of Simulation.run, the five event kinds of event.py, the Dispatcher,    *)
(* the Driver and Rider entities and the Monitor with its report.          *)
(*                                                                         *)
(* Python objects are modelled by their identifiers: an event holds the    *)
(* id of its rider and of its driver, and the mutable fields of the        *)
(* objects live in the functions  riders  and  drivers.  The value None    *)
(* is modelled by NoLoc for a location and by NoOne for a rider or driver. *)
(* An uncaught Python exception ends the run: pc = "fault" and  fault      *)
(* names the exception.                                                    *)
(***************************************************************************)
EXTENDS Bags, FiniteSets, Integers, Sequences, TLC

VARIABLES
    events,         \* Simulation._events: the priority queue, a bag of events
    pc,             \* "run" (in the while loop), "done" (returned), "fault"
    fault,          \* the exception that ended the run, or "none"
    cur,            \* the event last removed from the queue
    riders,         \* rider id -> the Rider object's fields
    drivers,        \* driver id -> the Driver object's fields
    dispatcher,     \* Dispatcher._drivers and Dispatcher._riders
    activities,     \* Monitor._activities: category -> id -> list of Activity
    report,         \* the dictionary returned by Monitor.report
    initial_events, \* the argument of Simulation.run
    ret,            \* what the dispatcher returned to the last event
    enqueued,       \* history: riders in the order they entered the waitlist
    returned,       \* history: riders in the order request_rider returned them
    assigned,       \* history: riders request_driver returned a driver for
    driven,         \* history: driver id -> the distance of its moves so far
    call            \* a function called on its own: arguments and results

vars == <<events, pc, fault, cur, riders, drivers, dispatcher, activities,
          report, initial_events, ret, enqueued, returned, assigned,
          driven, call>>

----------------------------------------------------------------------------
(* Bounds of the model and the inputs drawn in Init.                       *)

\* The timestamp of the first request of the doctest of Simulation.run.
MinStart == 2

\* The initial requests carry timestamps MinStart .. MaxStart.
MaxStart == 3

\* The locations of the grid have rows 0 .. MaxRow and columns 0 .. MaxCol.
MaxRow == 3

MaxCol == 4

RiderIds == {"r1", "r2", "r3"}

DriverIds == {"d1", "d2"}

NoOne == "none"

Loc(r, c) == [row |-> r, column |-> c]

\* None where a Location is expected (Driver._destination, and a location
\* overwritten by it).
NoLoc == [row |-> -1, column |-> -1]

Grid == {Loc(r, c) : r \in 0..MaxRow, c \in 0..MaxCol}

\* The places riders and drivers of a run start from and go to: the three
\* places of the doctest of Simulation.run.
PlaceSeq == <<Loc(0, 0), Loc(0, 4), Loc(3, 4)>>

Places == {PlaceSeq[i] : i \in 1..Len(PlaceSeq)}

\* The patiences of riders and the speeds of drivers: those of the doctest
\* of Simulation.run first.
PatienceSeq == <<4, 1>>

SpeedSeq == <<10, 1>>

----------------------------------------------------------------------------
(* rider.py                                                                *)

WAITING == "waiting"

CANCELLED == "cancelled"

SATISFIED == "satisfied"

Rider(origin, destination, patience) ==
    [origin |-> origin, destination |-> destination, patience |-> patience,
     status |-> WAITING]

----------------------------------------------------------------------------
(* monitor.py: the constants                                               *)

RIDER == "rider"

DRIVER == "driver"

REQUEST == "request"

CANCEL == "cancel"

PICKUP == "pickup"

DROPOFF == "dropoff"

----------------------------------------------------------------------------
(* location.py                                                             *)

Abs(x) == IF x < 0 THEN -x ELSE x

\* A plausible slip: abs is taken of the sum of the differences.
manhattan_distance_abs_of_sum(origin, destination) ==
    Abs((destination.row - origin.row) + (destination.column - origin.column))

\* A plausible slip: the signed differences are added.
manhattan_distance_signed(origin, destination) ==
    (destination.row - origin.row) + (destination.column - origin.column)

manhattan_distance(origin, destination) ==
    Abs(destination.row - origin.row) + Abs(destination.column - origin.column)

----------------------------------------------------------------------------
(* driver.py                                                               *)

Driver(location, speed) ==
    [location |-> location, speed |-> speed, is_idle |-> TRUE,
     destination |-> NoLoc]

\* int(a / b) of Python for b > 0: the quotient truncated towards zero.
int_div(a, b) == IF a >= 0 THEN a \div b ELSE -((-a) \div b)

\* manhattan_distance reads .row of both arguments: None has none.
raises_AttributeError(location) == location = NoLoc

\* A plausible slip: the travel time is taken from the signed distance.
get_travel_time_signed(drv, destination) ==
    int_div(manhattan_distance_signed(drv.location, destination), drv.speed)

get_travel_time(drv, destination) ==
    int_div(manhattan_distance(drv.location, destination), drv.speed)

start_drive(drv, location) == [drv EXCEPT !.destination = location]

end_drive(drv) ==
    [drv EXCEPT !.location = drv.destination, !.destination = NoLoc,
                !.is_idle = TRUE]

start_ride(drv, rider) ==
    [drv EXCEPT !.is_idle = FALSE, !.destination = rider.destination]

end_ride(drv) ==
    [drv EXCEPT !.location = drv.destination, !.is_idle = TRUE,
                !.destination = NoLoc]

----------------------------------------------------------------------------
(* dispatcher.py                                                           *)

Dispatcher == [drivers |-> <<>>, riders |-> <<>>]

\* x in list, for a list of ids.  Python's  in  and  list.remove  take an
\* element that is the same object as x, or equal to it by __eq__; the lists
\* hold the objects themselves, and Driver.__eq__ and Rider.__eq__ compare
\* the ids first, which differ between the objects of a run.
In(x, list) == \E i \in 1..Len(list) : list[i] = x

\* list.remove(x): the list without its first x.
RECURSIVE list_remove(_, _)
list_remove(list, x) ==
    IF list = <<>> THEN <<>>
    ELSE IF Head(list) = x THEN Tail(list)
    ELSE <<Head(list)>> \o list_remove(Tail(list), x)

\* The loop of request_driver over self._drivers, from the state
\* (min_time, driver) it has reached.
RECURSIVE scan_drivers(_, _, _, _, _)
scan_drivers(drvs, registered, origin, min_time, driver) ==
    IF registered = <<>> THEN driver
    ELSE LET d == Head(registered)
             t == get_travel_time(drvs[d], origin)
         IN  IF drvs[d].is_idle /\ (min_time = -1 \/ min_time > t)
             THEN scan_drivers(drvs, Tail(registered), origin, t, d)
             ELSE scan_drivers(drvs, Tail(registered), origin,
                               min_time, driver)

\* request_driver raises when it asks an idle driver without a location
\* for its travel time.
request_driver_raises(disp, drvs) ==
    \E i \in 1..Len(disp.drivers) :
        /\ drvs[disp.drivers[i]].is_idle
        /\ raises_AttributeError(drvs[disp.drivers[i]].location)

\* A plausible slip: the driver chosen is taken out of the registry.
request_driver_takes_driver(disp, drvs, r, origin) ==
    IF Len(disp.drivers) = 0
    THEN [driver |-> NoOne,
          disp |-> [disp EXCEPT !.riders = Append(@, r)]]
    ELSE LET driver == scan_drivers(drvs, disp.drivers, origin, -1, NoOne)
         IN  [driver |-> driver,
              disp |-> [disp EXCEPT !.drivers = list_remove(@, driver)]]

\* A plausible slip, and what the docstring of request_driver says: the
\* rider is put on the waiting list whenever no driver is returned.
request_driver_waitlists(disp, drvs, r, origin) ==
    LET driver == IF Len(disp.drivers) = 0 THEN NoOne
                  ELSE scan_drivers(drvs, disp.drivers, origin, -1, NoOne)
    IN  [driver |-> driver,
         disp |-> IF driver = NoOne
                  THEN [disp EXCEPT !.riders = Append(@, r)] ELSE disp]

\* The driver returned and the dispatcher left behind.
request_driver(disp, drvs, r, origin) ==
    IF Len(disp.drivers) = 0
    THEN [driver |-> NoOne,
          disp |-> [disp EXCEPT !.riders = Append(@, r)]]
    ELSE [driver |-> scan_drivers(drvs, disp.drivers, origin, -1, NoOne),
          disp |-> disp]

\* A plausible slip: the newest waiting rider is handed out.
request_rider_newest(disp, d) ==
    LET registered == IF In(d, disp.drivers) THEN disp.drivers
                      ELSE Append(disp.drivers, d)
    IN  IF Len(disp.riders) # 0
        THEN [rider |-> disp.riders[Len(disp.riders)],
              disp |-> [drivers |-> registered,
                        riders |-> SubSeq(disp.riders, 1,
                                          Len(disp.riders) - 1)]]
        ELSE [rider |-> NoOne,
              disp |-> [drivers |-> registered, riders |-> disp.riders]]

\* A plausible slip: the driver is registered at every request.
request_rider_always_registers(disp, d) ==
    LET registered == Append(disp.drivers, d)
    IN  IF Len(disp.riders) # 0
        THEN [rider |-> Head(disp.riders),
              disp |-> [drivers |-> registered, riders |-> Tail(disp.riders)]]
        ELSE [rider |-> NoOne,
              disp |-> [drivers |-> registered, riders |-> disp.riders]]

\* A plausible slip: the first rider is read and left on the waitlist.
request_rider_peeks(disp, d) ==
    LET registered == IF In(d, disp.drivers) THEN disp.drivers
                      ELSE Append(disp.drivers, d)
    IN  [rider |-> IF Len(disp.riders) # 0 THEN Head(disp.riders) ELSE NoOne,
         disp |-> [drivers |-> registered, riders |-> disp.riders]]

\* The rider returned and the dispatcher left behind.
request_rider(disp, d) ==
    LET registered == IF In(d, disp.drivers) THEN disp.drivers
                      ELSE Append(disp.drivers, d)
    IN  IF Len(disp.riders) # 0
        THEN [rider |-> Head(disp.riders),
              disp |-> [drivers |-> registered, riders |-> Tail(disp.riders)]]
        ELSE [rider |-> NoOne,
              disp |-> [drivers |-> registered, riders |-> disp.riders]]

\* A plausible slip: the waiting list is searched for a rider equal to the
\* one that asked for a ride, still Waiting; the rider cancelling has
\* status Cancelled by then and is not found.
cancel_ride_stale(disp, r) == disp

cancel_ride(disp, r) ==
    IF In(r, disp.riders)
    THEN [disp EXCEPT !.riders = list_remove(@, r)]
    ELSE disp

----------------------------------------------------------------------------
(* monitor.py                                                              *)

Activity(timestamp, description, location) ==
    [time |-> timestamp, description |-> description, location |-> location]

\* An identifier is a key of the dictionary of its category as soon as its
\* list holds an activity: notify creates the list and appends to it at once.
Monitor ==
    [rider |-> [r \in RiderIds |-> <<>>], driver |-> [d \in DriverIds |-> <<>>]]

\* A plausible slip: the activity is put at the front of the log.
notify_first(acts, timestamp, category, description, identifier, location) ==
    [acts EXCEPT ![category][identifier] =
                     <<Activity(timestamp, description, location)>> \o @]

notify(acts, timestamp, category, description, identifier, location) ==
    [acts EXCEPT ![category][identifier] =
                     Append(@, Activity(timestamp, description, location))]

RECURSIVE Sum(_, _)
Sum(f, S) ==
    IF S = {} THEN 0
    ELSE LET x == CHOOSE y \in S : TRUE IN f[x] + Sum(f, S \ {x})

\* The logs of the riders that count for the wait time.
resolved(acts) == {r \in RiderIds : Len(acts.rider[r]) >= 2}

logged(acts) == {d \in DriverIds : Len(acts.driver[d]) >= 1}

\* A float is the quotient of two integers, kept as the pair.
Quotient(n, d) == [num |-> n, den |-> d]

average_wait_time(acts) ==
    Quotient(Sum([r \in RiderIds |->
                     acts.rider[r][2].time - acts.rider[r][1].time],
                 resolved(acts)),
             Cardinality(resolved(acts)))

\* The distance the loop of _average_total_distance adds at index i (from 1).
total_at(log, i) ==
    IF log[i].description = REQUEST
    THEN manhattan_distance(log[i].location, log[i + 1].location)
         + (IF log[i + 2].description = DROPOFF
            THEN manhattan_distance(log[i + 1].location, log[i + 2].location)
            ELSE 0)
    ELSE 0

total_at_raises(log, i) ==
    /\ log[i].description = REQUEST
    /\ \/ raises_AttributeError(log[i].location)
       \/ raises_AttributeError(log[i + 1].location)
       \/ /\ log[i + 2].description = DROPOFF
          /\ raises_AttributeError(log[i + 2].location)

\* A plausible slip: the ride that follows the drive is not added.
total_distance_drives_only(log) ==
    Sum([i \in 1..(Len(log) - 2) |->
            IF log[i].description = REQUEST
            THEN manhattan_distance(log[i].location, log[i + 1].location)
            ELSE 0],
        1..(Len(log) - 2))

total_distance(log) ==
    Sum([i \in 1..(Len(log) - 2) |-> total_at(log, i)], 1..(Len(log) - 2))

average_total_distance(acts) ==
    Quotient(Sum([d \in DriverIds |-> total_distance(acts.driver[d])],
                 logged(acts)),
             Cardinality(logged(acts)))

average_total_distance_raises(acts) ==
    \E d \in logged(acts) :
        \E i \in 1..(Len(acts.driver[d]) - 2) :
            total_at_raises(acts.driver[d], i)

ride_at(log, i) ==
    IF log[i].description = PICKUP /\ log[i + 1].description = DROPOFF
    THEN manhattan_distance(log[i].location, log[i + 1].location)
    ELSE 0

ride_at_raises(log, i) ==
    /\ log[i].description = PICKUP
    /\ log[i + 1].description = DROPOFF
    /\ \/ raises_AttributeError(log[i].location)
       \/ raises_AttributeError(log[i + 1].location)

ride_distance(log) ==
    Sum([i \in 1..(Len(log) - 1) |-> ride_at(log, i)], 1..(Len(log) - 1))

average_ride_distance(acts) ==
    Quotient(Sum([d \in DriverIds |-> ride_distance(acts.driver[d])],
                 logged(acts)),
             Cardinality(logged(acts)))

average_ride_distance_raises(acts) ==
    \E d \in logged(acts) :
        \E i \in 1..(Len(acts.driver[d]) - 1) :
            ride_at_raises(acts.driver[d], i)

NoReport ==
    [rider_wait_time |-> Quotient(0, 0),
     driver_total_distance |-> Quotient(0, 0),
     driver_ride_distance |-> Quotient(0, 0)]

\* A plausible slip: the number of drivers is taken to be positive.
report_fault_with_drivers(acts) ==
    IF Cardinality(resolved(acts)) = 0 THEN "ZeroDivisionError"
    ELSE IF average_total_distance_raises(acts) THEN "AttributeError"
    ELSE IF average_ride_distance_raises(acts) THEN "AttributeError"
    ELSE "none"

\* The exception Monitor.report ends in, "none" when it returns: the three
\* statistics are computed in the order of the dictionary display.
report_fault(acts) ==
    IF Cardinality(resolved(acts)) = 0 THEN "ZeroDivisionError"
    ELSE IF average_total_distance_raises(acts) THEN "AttributeError"
    ELSE IF Cardinality(logged(acts)) = 0 THEN "ZeroDivisionError"
    ELSE IF average_ride_distance_raises(acts) THEN "AttributeError"
    ELSE "none"

monitor_report(acts) ==
    [rider_wait_time |-> average_wait_time(acts),
     driver_total_distance |-> average_total_distance(acts),
     driver_ride_distance |-> average_ride_distance(acts)]

----------------------------------------------------------------------------
(* container.py is not among the sources: the priority queue is modelled   *)
(* from the specification, which orders events by timestamp only and       *)
(* leaves the order of events with equal timestamps open.                  *)

pq_add(queue, event) == queue (+) SetToBag({event})

pq_add_all(queue, new_events) ==
    queue (+) [e \in new_events |-> 1]

\* The events remove() may return: those with the smallest timestamp.
pq_first(queue) ==
    {e \in BagToSet(queue) :
        \A f \in BagToSet(queue) : e.timestamp <= f.timestamp}

pq_remove(queue, event) == queue (-) SetToBag({event})

pq_is_empty(queue) == queue = EmptyBag

----------------------------------------------------------------------------
(* event.py                                                                *)

Event(kind, timestamp, rider, driver) ==
    [kind |-> kind, timestamp |-> timestamp, rider |-> rider,
     driver |-> driver]

RiderRequest(timestamp, rider) ==
    Event("RiderRequest", timestamp, rider, NoOne)

DriverRequest(timestamp, driver) ==
    Event("DriverRequest", timestamp, NoOne, driver)

Cancellation(timestamp, rider) ==
    Event("Cancellation", timestamp, rider, NoOne)

Pickup(timestamp, rider, driver) == Event("Pickup", timestamp, rider, driver)

Dropoff(timestamp, rider, driver) == Event("Dropoff", timestamp, rider, driver)

NoEvent == Event("none", 0, NoOne, NoOne)

\* A plausible slip: the Cancellation does not look at the rider's status.
Cancellation_always(rider) == TRUE

\* A plausible slip: the test is for the wrong status.
Cancellation_unless_cancelled(rider) == rider.status # CANCELLED

\* A plausible slip: the  not  of the test is left out.
Cancellation_if_satisfied(rider) == rider.status = SATISFIED

\* The test of Cancellation.do: the rider has not been picked up.
Cancellation_applies(rider) == rider.status # SATISFIED

\* A plausible slip: the Pickup does not look at the rider's status.
Pickup_always(rider) == TRUE

\* The test of Pickup.do: the rider is still there.
Pickup_applies(rider) == rider.status = WAITING

\* An event raised: the run ends with what the event had done by then.
Raise(exception) ==
    /\ pc' = "fault"
    /\ fault' = exception
    /\ UNCHANGED report

Continue ==
    /\ UNCHANGED <<pc, fault, report>>

\* The distance of a move of a driver; a move from or to no location has
\* none.
moved(from, to) ==
    IF from = NoLoc \/ to = NoLoc THEN 0 ELSE manhattan_distance(from, to)

\* RiderRequest.do and the step of the loop that ran it.
DoRiderRequest(e) ==
    LET r == e.rider
        rider == riders[r]
        acts == notify(activities, e.timestamp, RIDER, REQUEST, r,
                       rider.origin)
        got == request_driver(dispatcher, drivers, r, rider.origin)
        d == got.driver
    IN  /\ e.kind = "RiderRequest"
        /\ cur' = e
        /\ activities' = acts
        /\ UNCHANGED <<riders, initial_events, returned, driven>>
        /\ assigned' = IF Len(dispatcher.drivers) # 0
                          /\ ~request_driver_raises(dispatcher, drivers)
                          /\ d # NoOne
                       THEN assigned \cup {r} ELSE assigned
        /\ IF Len(dispatcher.drivers) # 0
              /\ request_driver_raises(dispatcher, drivers)
           THEN /\ Raise("AttributeError")
                /\ events' = pq_remove(events, e)
                /\ ret' = NoOne
                /\ UNCHANGED <<drivers, dispatcher, enqueued>>
           ELSE /\ Continue
                /\ dispatcher' = got.disp
                /\ ret' = d
                /\ enqueued' = IF got.disp.riders # dispatcher.riders
                               THEN Append(enqueued, r) ELSE enqueued
                /\ IF d # NoOne
                   THEN LET drv == start_drive(drivers[d], rider.origin)
                            travel_time == get_travel_time(drv, rider.origin)
                        IN  /\ drivers' = [drivers EXCEPT ![d] = drv]
                            /\ events' = pq_add_all(pq_remove(events, e),
                                   {Pickup(e.timestamp + travel_time, r, d),
                                    Cancellation(e.timestamp + rider.patience,
                                                 r)})
                   ELSE /\ UNCHANGED drivers
                        /\ events' = pq_add(pq_remove(events, e),
                               Cancellation(e.timestamp + rider.patience, r))

\* DriverRequest.do and the step of the loop that ran it.
DoDriverRequest(e) ==
    LET d == e.driver
        acts == notify(activities, e.timestamp, DRIVER, REQUEST, d,
                       drivers[d].location)
        got == request_rider(dispatcher, d)
        r == got.rider
    IN  /\ e.kind = "DriverRequest"
        /\ cur' = e
        /\ activities' = acts
        /\ dispatcher' = got.disp
        /\ ret' = r
        /\ returned' = IF r # NoOne THEN Append(returned, r) ELSE returned
        /\ UNCHANGED <<riders, initial_events, enqueued, assigned, driven>>
        /\ IF r = NoOne
           THEN /\ Continue
                /\ events' = pq_remove(events, e)
                /\ UNCHANGED drivers
           ELSE LET drv == start_drive(drivers[d], riders[r].origin)
                    travel_time == get_travel_time(drv, riders[r].origin)
                IN  /\ drivers' = [drivers EXCEPT ![d] = drv]
                    /\ IF raises_AttributeError(drv.location)
                       THEN /\ Raise("AttributeError")
                            /\ events' = pq_remove(events, e)
                       ELSE /\ Continue
                            /\ events' = pq_add(pq_remove(events, e),
                                   Pickup(e.timestamp + travel_time, r, d))

\* Cancellation.do and the step of the loop that ran it.
DoCancellation(e) ==
    LET r == e.rider
    IN  /\ e.kind = "Cancellation"
        /\ cur' = e
        /\ ret' = NoOne
        /\ events' = pq_remove(events, e)
        /\ Continue
        /\ UNCHANGED <<drivers, initial_events, enqueued, returned, assigned,
                       driven>>
        /\ IF Cancellation_applies(riders[r])
           THEN /\ activities' = notify(activities, e.timestamp, RIDER,
                                        CANCEL, r, riders[r].origin)
                /\ riders' = [riders EXCEPT ![r].status = CANCELLED]
                /\ dispatcher' = cancel_ride(dispatcher, r)
           ELSE UNCHANGED <<activities, riders, dispatcher>>

\* Pickup.do and the step of the loop that ran it.
DoPickup(e) ==
    LET r == e.rider
        d == e.driver
        arrived == end_drive(drivers[d])
        acts == notify(activities, e.timestamp, DRIVER, PICKUP, d,
                       arrived.location)
    IN  /\ e.kind = "Pickup"
        /\ cur' = e
        /\ ret' = NoOne
        /\ UNCHANGED <<dispatcher, initial_events, enqueued, returned,
                       assigned>>
        /\ driven' = [driven EXCEPT
                         ![d] = @ + moved(drivers[d].location,
                                          arrived.location)]
        /\ IF Pickup_applies(riders[r])
           THEN LET riding == start_ride(arrived, riders[r])
                    time == get_travel_time(riding, riders[r].destination)
                IN  /\ activities' = notify(acts, e.timestamp, RIDER, PICKUP,
                                            r, riders[r].origin)
                    /\ drivers' = [drivers EXCEPT ![d] = riding]
                    /\ IF raises_AttributeError(riding.location)
                       THEN /\ Raise("AttributeError")
                            /\ events' = pq_remove(events, e)
                            /\ UNCHANGED riders
                       ELSE /\ Continue
                            /\ events' = pq_add(pq_remove(events, e),
                                   Dropoff(e.timestamp + time, r, d))
                            /\ riders' = [riders EXCEPT
                                             ![r].status = SATISFIED]
           ELSE /\ Continue
                /\ activities' = acts
                /\ drivers' = [drivers EXCEPT ![d] = arrived]
                /\ events' = pq_add(pq_remove(events, e),
                                    DriverRequest(e.timestamp, d))
                /\ UNCHANGED riders

\* Dropoff.do and the step of the loop that ran it.
DoDropoff(e) ==
    LET r == e.rider
        d == e.driver
    IN  /\ e.kind = "Dropoff"
        /\ cur' = e
        /\ ret' = NoOne
        /\ Continue
        /\ activities' =
               notify(notify(activities, e.timestamp, RIDER, DROPOFF, r,
                             riders[r].destination),
                      e.timestamp, DRIVER, DROPOFF, d, riders[r].destination)
        /\ drivers' = [drivers EXCEPT ![d] = end_ride(@)]
        /\ driven' = [driven EXCEPT
                         ![d] = @ + moved(drivers[d].location,
                                          end_ride(drivers[d]).location)]
        /\ events' = pq_add(pq_remove(events, e),
                            DriverRequest(e.timestamp, d))
        /\ UNCHANGED <<riders, dispatcher, initial_events, enqueued, returned,
                       assigned>>

----------------------------------------------------------------------------
(* simulation.py                                                           *)

\* One turn of the while loop of Simulation.run, by the kind of the event
\* that remove() returns.
RunRiderRequest ==
    /\ pc = "run"
    /\ ~pq_is_empty(events)
    /\ \E e \in pq_first(events) : DoRiderRequest(e)
    /\ UNCHANGED call

RunDriverRequest ==
    /\ pc = "run"
    /\ ~pq_is_empty(events)
    /\ \E e \in pq_first(events) : DoDriverRequest(e)
    /\ UNCHANGED call

RunCancellation ==
    /\ pc = "run"
    /\ ~pq_is_empty(events)
    /\ \E e \in pq_first(events) : DoCancellation(e)
    /\ UNCHANGED call

RunPickup ==
    /\ pc = "run"
    /\ ~pq_is_empty(events)
    /\ \E e \in pq_first(events) : DoPickup(e)
    /\ UNCHANGED call

RunDropoff ==
    /\ pc = "run"
    /\ ~pq_is_empty(events)
    /\ \E e \in pq_first(events) : DoDropoff(e)
    /\ UNCHANGED call

\* The queue is empty: run returns the monitor's report.
Return ==
    /\ pc = "run"
    /\ pq_is_empty(events)
    /\ IF report_fault(activities) = "none"
       THEN /\ pc' = "done"
            /\ report' = monitor_report(activities)
            /\ UNCHANGED fault
       ELSE /\ pc' = "fault"
            /\ fault' = report_fault(activities)
            /\ UNCHANGED report
    /\ UNCHANGED <<events, cur, riders, drivers, dispatcher, activities,
                   initial_events, ret, enqueued, returned, assigned, driven,
                   call>>

----------------------------------------------------------------------------
(* The runs checked: every list of initial events with at most one         *)
(* RiderRequest per rider and one DriverRequest per driver.  Riders and    *)
(* drivers are numbered 0 .. N-1 by their constructor arguments and the    *)
(* timestamp of their request; as the ids play no part in a run, r1 takes  *)
(* the smaller number of two riders and d1 that of two drivers.            *)

NStarts == MaxStart - MinStart + 1

NRiderInputs == 3 * 2 * 2 * NStarts

NDriverInputs == 3 * 2 * NStarts

\* The rider request numbered k: origin, destination (another place),
\* patience and timestamp.
RiderInput(k) ==
    LET o == k % 3
        t == (o + 1 + ((k \div 3) % 2)) % 3
    IN  [origin |-> PlaceSeq[o + 1], destination |-> PlaceSeq[t + 1],
         patience |-> PatienceSeq[((k \div 6) % 2) + 1],
         timestamp |-> MinStart + (k \div 12)]

DriverInput(k) ==
    [location |-> PlaceSeq[(k % 3) + 1],
     speed |-> SpeedSeq[((k \div 3) % 2) + 1],
     timestamp |-> MinStart + (k \div 6)]

\* A rider or driver no initial event names is never used.
AbsentRider == [origin |-> NoLoc, destination |-> NoLoc, patience |-> 0,
                timestamp |-> 0]

AbsentDriver == [location |-> NoLoc, speed |-> 1, timestamp |-> 0]

\* The numbers of the rider requests of the first patience made at
\* MinStart, and of those made at MaxStart.
EarlyRiders ==
    {k \in 0..(NRiderInputs - 1) :
        /\ RiderInput(k).patience = PatienceSeq[1]
        /\ RiderInput(k).timestamp = MinStart}

LateRiders ==
    {k \in 0..(NRiderInputs - 1) :
        /\ RiderInput(k).patience = PatienceSeq[1]
        /\ RiderInput(k).timestamp = MaxStart}

\* The numbers of the driver requests of the first speed.
FastDrivers ==
    {k \in 0..(NDriverInputs - 1) : DriverInput(k).speed = SpeedSeq[1]}

\* The lists of initial events hold at most three requests.
RiderInputs ==
    [none |-> {[r \in RiderIds |-> AbsentRider]},
     one |-> {[r \in RiderIds |-> IF r = "r1" THEN RiderInput(k)
                                  ELSE AbsentRider] :
                 k \in 0..(NRiderInputs - 1)},
     two |-> {[r \in RiderIds |-> IF r = "r1" THEN RiderInput(k[1])
                                  ELSE IF r = "r2" THEN RiderInput(k[2])
                                  ELSE AbsentRider] :
                 k \in {p \in (0..(NRiderInputs - 1))
                                 \X (0..(NRiderInputs - 1)) : p[1] <= p[2]}},
     three |-> {[r \in RiderIds |-> IF r = "r1" THEN RiderInput(k[1])
                                    ELSE IF r = "r2" THEN RiderInput(k[2])
                                    ELSE RiderInput(k[3])] :
                   k \in {p \in EarlyRiders \X EarlyRiders \X LateRiders :
                              p[1] <= p[2]}}]

DriverInputs ==
    [none |-> {[d \in DriverIds |-> AbsentDriver]},
     one |-> {[d \in DriverIds |-> IF d = "d1" THEN DriverInput(k)
                                   ELSE AbsentDriver] :
                 k \in 0..(NDriverInputs - 1)},
     fast |-> {[d \in DriverIds |-> IF d = "d1" THEN DriverInput(k)
                                    ELSE AbsentDriver] : k \in FastDrivers},
     two |-> {[d \in DriverIds |-> IF d = "d1" THEN DriverInput(k[1])
                                   ELSE DriverInput(k[2])] :
                 k \in {p \in (0..(NDriverInputs - 1))
                                 \X (0..(NDriverInputs - 1)) : p[1] <= p[2]}}]

\* How many riders and how many drivers the initial events name.
Shapes ==
    {<<"none", "none">>, <<"one", "none">>, <<"none", "one">>,
     <<"one", "one">>, <<"two", "none">>, <<"none", "two">>,
     <<"two", "one">>, <<"one", "two">>}

\* No function is called on its own in a run.
NoCall == [op |-> "none", origin |-> NoLoc, destination |-> NoLoc,
           done |-> FALSE, result |-> 0, reverse |-> 0, self |-> 0]

\* The list of initial events built from the inputs.
InitialEvents(ri, di) ==
    {RiderRequest(ri[r].timestamp, r) : r \in {x \in RiderIds : ri[x] # AbsentRider}}
    \cup {DriverRequest(di[d].timestamp, d) :
             d \in {x \in DriverIds : di[x] # AbsentDriver}}

\* The state run starts from, on the initial events of one of the shapes.
InitOn(shapes) ==
    \E shape \in shapes :
      \E ri \in RiderInputs[shape[1]], di \in DriverInputs[shape[2]] :
        /\ initial_events = [riders |-> ri, drivers |-> di]
        /\ riders = [r \in RiderIds |->
                        Rider(ri[r].origin, ri[r].destination, ri[r].patience)]
        /\ drivers = [d \in DriverIds |-> Driver(di[d].location, di[d].speed)]
        /\ events = pq_add_all(EmptyBag, InitialEvents(ri, di))
        /\ pc = "run"
        /\ fault = "none"
        /\ cur = NoEvent
        /\ dispatcher = Dispatcher
        /\ activities = Monitor
        /\ report = NoReport
        /\ ret = NoOne
        /\ enqueued = <<>>
        /\ returned = <<>>
        /\ assigned = {}
        /\ driven = [d \in DriverIds |-> 0]
        /\ call = NoCall

Init == InitOn(Shapes)

Next ==
    \/ RunRiderRequest
    \/ RunDriverRequest
    \/ RunCancellation
    \/ RunPickup
    \/ RunDropoff
    \/ Return

Spec == Init /\ [][Next]_vars

\* The runs on four requests: two patient riders that ask at MinStart, a
\* third that asks at MaxStart, and one fast driver.
InitThree == InitOn({<<"three", "fast">>})

SpecThree == InitThree /\ [][Next]_vars

\* The runs on four requests with one driver of either speed.
InitThreeAny == InitOn({<<"three", "one">>})

SpecThreeAny == InitThreeAny /\ [][Next]_vars

----------------------------------------------------------------------------
(* manhattan_distance called on its own, on every pair of locations of the *)
(* grid: the distance from the first to the second, from the second to the *)
(* first, and from the first to itself.                                    *)

InitDistance ==
    /\ call \in {[NoCall EXCEPT !.op = "manhattan_distance", !.origin = a,
                                !.destination = b] : a, b \in Grid}
    /\ initial_events = [riders |-> [r \in RiderIds |-> AbsentRider],
                         drivers |-> [d \in DriverIds |-> AbsentDriver]]
    /\ riders = [r \in RiderIds |-> Rider(NoLoc, NoLoc, 0)]
    /\ drivers = [d \in DriverIds |-> Driver(NoLoc, 1)]
    /\ events = EmptyBag
    /\ pc = "call"
    /\ fault = "none"
    /\ cur = NoEvent
    /\ dispatcher = Dispatcher
    /\ activities = Monitor
    /\ report = NoReport
    /\ ret = NoOne
    /\ enqueued = <<>>
    /\ returned = <<>>
    /\ assigned = {}
    /\ driven = [d \in DriverIds |-> 0]

CallManhattanDistance ==
    /\ pc = "call"
    /\ call.op = "manhattan_distance"
    /\ ~call.done
    /\ call' = [call EXCEPT
                   !.done = TRUE,
                   !.result = manhattan_distance(call.origin, call.destination),
                   !.reverse = manhattan_distance(call.destination, call.origin),
                   !.self = manhattan_distance(call.origin, call.origin)]
    /\ UNCHANGED <<events, pc, fault, cur, riders, drivers, dispatcher,
                   activities, report, initial_events, ret, enqueued,
                   returned, assigned, driven>>

SpecDistance == InitDistance /\ [][CallManhattanDistance]_vars

----------------------------------------------------------------------------
(* The Queue of my_queue.py, called on its own: add, remove and pop_ on a  *)
(* queue that starts empty, with the items of QueueItems.                  *)

\* The longest queue built.
MaxItems == 3

QueueItems == {"a", "b", "c"}

\* The _items of a new Queue.
Queue == <<>>

\* _items after add: append.
add(items, item) == Append(items, item)

\* list.remove raises ValueError when the item is not in the list.
remove_raises(items, item) == ~In(item, items)

\* _items after remove: the first item equal to it is taken out.
remove(items, item) == list_remove(items, item)

\* list.pop raises IndexError on the empty list.
pop_raises(items) == Len(items) = 0

\* pop_: list.pop() takes the last item out, and its value is dropped: the
\* method has no return statement and returns None.
pop_(items) ==
    [items |-> SubSeq(items, 1, Len(items) - 1), result |-> NoOne]

InitQueue ==
    /\ call = [op |-> "Queue", items |-> Queue, last |-> "__init__",
               item |-> NoOne, result |-> NoOne]
    /\ initial_events = [riders |-> [r \in RiderIds |-> AbsentRider],
                         drivers |-> [d \in DriverIds |-> AbsentDriver]]
    /\ riders = [r \in RiderIds |-> Rider(NoLoc, NoLoc, 0)]
    /\ drivers = [d \in DriverIds |-> Driver(NoLoc, 1)]
    /\ events = EmptyBag
    /\ pc = "call"
    /\ fault = "none"
    /\ cur = NoEvent
    /\ dispatcher = Dispatcher
    /\ activities = Monitor
    /\ report = NoReport
    /\ ret = NoOne
    /\ enqueued = <<>>
    /\ returned = <<>>
    /\ assigned = {}
    /\ driven = [d \in DriverIds |-> 0]

CallAdd ==
    /\ pc = "call"
    /\ call.op = "Queue"
    /\ Len(call.items) < MaxItems
    /\ \E item \in QueueItems :
          call' = [call EXCEPT !.items = add(call.items, item),
                               !.last = "add", !.item = item,
                               !.result = NoOne]
    /\ UNCHANGED <<events, pc, fault, cur, riders, drivers, dispatcher,
                   activities, report, initial_events, ret, enqueued,
                   returned, assigned, driven>>

CallRemove ==
    /\ pc = "call"
    /\ call.op = "Queue"
    /\ \E item \in QueueItems :
          IF remove_raises(call.items, item)
          THEN /\ call' = [call EXCEPT !.last = "remove", !.item = item,
                                       !.result = NoOne]
               /\ pc' = "fault"
               /\ fault' = "ValueError"
          ELSE /\ call' = [call EXCEPT !.items = remove(call.items, item),
                                       !.last = "remove", !.item = item,
                                       !.result = NoOne]
               /\ UNCHANGED <<pc, fault>>
    /\ UNCHANGED <<events, cur, riders, drivers, dispatcher, activities,
                   report, initial_events, ret, enqueued, returned, assigned,
                   driven>>

CallPop ==
    /\ pc = "call"
    /\ call.op = "Queue"
    /\ IF pop_raises(call.items)
       THEN /\ call' = [call EXCEPT !.last = "pop_", !.item = NoOne,
                                    !.result = NoOne]
            /\ pc' = "fault"
            /\ fault' = "IndexError"
       ELSE /\ call' = [call EXCEPT !.items = pop_(call.items).items,
                                    !.last = "pop_", !.item = NoOne,
                                    !.result = pop_(call.items).result]
            /\ UNCHANGED <<pc, fault>>
    /\ UNCHANGED <<events, cur, riders, drivers, dispatcher, activities,
                   report, initial_events, ret, enqueued, returned, assigned,
                   driven>>

NextQueue ==
    \/ CallAdd
    \/ CallRemove
    \/ CallPop

SpecQueue == InitQueue /\ [][NextQueue]_vars

----------------------------------------------------------------------------
(* The claims.                                                             *)

\* The step just taken removed event e from the queue and ran it.
Ran(e) == cur' = e /\ events' # events

\* The travel time of the specification: floor(distance / speed).
TravelTime(drv, place) ==
    (Abs(drv.location.row - place.row)
       + Abs(drv.location.column - place.column)) \div drv.speed

\* The place of x in a list without repetitions, 0 when it is not there.
Pos(list, x) ==
    IF In(x, list) THEN CHOOSE i \in 1..Len(list) : list[i] = x ELSE 0

\* C1: the event removed from the queue has the smallest timestamp of the
\* events in the queue, and its timestamp is not smaller than that of the
\* event processed before it.
C1_ProcessedInTimestampOrder ==
    [][events' # events =>
          /\ cur' \in BagToSet(events)
          /\ \A f \in BagToSet(events) : cur'.timestamp <= f.timestamp
          /\ cur.timestamp <= cur'.timestamp]_vars

\* C1 witness: a follow-up event has been processed while others wait.
C1_Witness ==
    /\ cur.kind = "Pickup"
    /\ cur.timestamp > MaxStart
    /\ events # EmptyBag

\* The Pickup and Dropoff events of the queue that refer to driver d.
InFlight(d) ==
    {e \in BagToSet(events) : e.kind \in {"Pickup", "Dropoff"} /\ e.driver = d}

\* C2: at any time at most one undelivered Pickup or Dropoff event refers
\* to a given driver (a driver is never assigned to two riders at once).
C2_OneRiderPerDriver ==
    \A d \in DriverIds : Cardinality(InFlight(d)) <= 1

\* C3: a driver is idle if and only if its destination is none.
C3_IdleIffNoDestination ==
    \A d \in DriverIds :
        drivers[d].is_idle <=> (drivers[d].destination = NoLoc)

Logged(r, description) ==
    \E i \in 1..Len(activities.rider[r]) :
        activities.rider[r][i].description = description

\* C4: a rider's status changes only from Waiting, to Cancelled by a
\* Cancellation event for that rider or to Satisfied by a Pickup event for
\* that rider, and no rider is both picked up and cancelled.
C4_RiderStatusChangesOnce ==
    [][\A r \in RiderIds :
          /\ riders'[r].status # riders[r].status =>
                /\ riders[r].status = WAITING
                /\ cur'.rider = r
                /\ \/ riders'[r].status = CANCELLED /\ cur'.kind = "Cancellation"
                   \/ riders'[r].status = SATISFIED /\ cur'.kind = "Pickup"
          /\ ~(Logged(r, PICKUP)' /\ Logged(r, CANCEL)')]_vars

\* C4 witness: one rider has been picked up, another has cancelled, and the
\* Cancellation of the rider picked up has been processed too.
C4_Witness ==
    /\ \E r \in RiderIds : riders[r].status = CANCELLED
    /\ \E r \in RiderIds :
          /\ riders[r].status = SATISFIED
          /\ cur = Cancellation(cur.timestamp, r)

\* C5: a Cancellation event processed when its rider is Satisfied changes
\* no rider, no log, no driver and nothing of the dispatcher, and adds no
\* event to the queue.
C5_LateCancellationChangesNothing ==
    [][\A e \in BagToSet(events) :
          (e.kind = "Cancellation" /\ riders[e.rider].status = SATISFIED
             /\ Ran(e)) =>
              /\ events' (+) SetToBag({e}) = events
              /\ UNCHANGED <<riders, activities, dispatcher, drivers>>
              /\ pc' = "run"]_vars

\* C5 witness: the event last processed is the Cancellation of a rider that
\* had been picked up.
C5_Witness ==
    /\ cur.kind = "Cancellation"
    /\ riders[cur.rider].status = SATISFIED
    /\ Len(activities.rider[cur.rider]) >= 2

IdleAt(disp, drvs) ==
    {i \in 1..Len(disp.drivers) : drvs[disp.drivers[i]].is_idle}

\* C7: with a driver registered, request_driver returns (and does not
\* raise) the idle registered driver of smallest travel time to the rider's
\* origin, the one registered first among several, and none when no
\* registered driver is idle.
C7_NearestIdleDriver ==
    (pc = "run" /\ Len(dispatcher.drivers) # 0) =>
        \A origin \in Places :
            LET got == request_driver(dispatcher, drivers, "r1", origin).driver
                idle == IdleAt(dispatcher, drivers)
                time(i) == TravelTime(drivers[dispatcher.drivers[i]], origin)
            IN  /\ ~request_driver_raises(dispatcher, drivers)
                /\ IF idle = {} THEN got = NoOne
                   ELSE \E i \in idle :
                           /\ got = dispatcher.drivers[i]
                           /\ \A j \in idle :
                                 /\ time(i) <= time(j)
                                 /\ time(i) = time(j) => i <= j

\* The initial events of the doctest of Simulation.run.
DoctestEvents ==
    [riders |-> [r \in RiderIds |->
                    IF r = "r1"
                    THEN [origin |-> Loc(0, 0), destination |-> Loc(3, 4),
                          patience |-> 4, timestamp |-> 2]
                    ELSE AbsentRider],
     drivers |-> [d \in DriverIds |->
                     IF d = "d1"
                     THEN [location |-> Loc(0, 4), speed |-> 10,
                           timestamp |-> 3]
                     ELSE AbsentDriver]]

\* The float x is the quotient q.
Is(q, x) == q.den > 0 /\ q.num = x * q.den

\* C8: the run on the doctest's events does not fault, and it returns
\* rider_wait_time 1, driver_ride_distance 7 and driver_total_distance 11
\* with the rider Satisfied, its log Request, Pickup, Dropoff.
C8_DoctestReport ==
    initial_events = DoctestEvents =>
        /\ pc # "fault"
        /\ pc = "done" =>
              /\ Is(report.rider_wait_time, 1)
              /\ Is(report.driver_ride_distance, 7)
              /\ Is(report.driver_total_distance, 11)
              /\ riders["r1"].status = SATISFIED
              /\ [i \in 1..Len(activities.rider["r1"]) |->
                     activities.rider["r1"][i].description]
                     = <<REQUEST, PICKUP, DROPOFF>>

\* C8 witness: the run on the doctest's events has returned.
C8_Witness == initial_events = DoctestEvents /\ pc = "done"

\* The RiderRequest of rider r has been processed.
Requested(r) == Len(activities.rider[r]) >= 1

\* C10: a rider whose RiderRequest has been processed is on the waitlist if
\* and only if it is Waiting and has been given no driver, neither by
\* request_driver nor by request_rider.
C10_WaitlistIffWaitingUnassigned ==
    \A r \in RiderIds :
        Requested(r) =>
            (In(r, dispatcher.riders)
               <=> /\ riders[r].status = WAITING
                   /\ r \notin assigned
                   /\ ~In(r, returned))

\* The step just taken ran an event of this kind.
RanKind(kind) == cur'.kind = kind /\ events' # events

C12_RegisteredOnce ==
    [][/\ IF RanKind("DriverRequest")
          THEN dispatcher'.drivers =
                   IF In(cur'.driver, dispatcher.drivers)
                   THEN dispatcher.drivers
                   ELSE Append(dispatcher.drivers, cur'.driver)
          ELSE dispatcher'.drivers = dispatcher.drivers
       /\ \A i, j \in 1..Len(dispatcher'.drivers) :
             i # j => dispatcher'.drivers[i] # dispatcher'.drivers[j]]_vars

\* C12 witness: two drivers are registered, and the one registered first
\* has asked for a rider again after a ride moved it.
C12_Witness ==
    /\ cur.kind = "DriverRequest"
    /\ Len(dispatcher.drivers) = 2
    /\ dispatcher.drivers[1] = cur.driver
    /\ Len(activities.driver[cur.driver]) = 4
    /\ drivers[cur.driver].location # activities.driver[cur.driver][1].location

\* C13: a Cancellation that finds its rider not Satisfied leaves the
\* waitlist without that rider and otherwise as it was, in the same order;
\* a Cancelled rider is never on the waitlist and request_rider returns only
\* Waiting riders.
C13_CancelRemovesFromWaitlist ==
    [][/\ \A e \in BagToSet(events) :
            (e.kind = "Cancellation" /\ Ran(e)
               /\ riders[e.rider].status # SATISFIED) =>
                /\ dispatcher'.riders =
                       SelectSeq(dispatcher.riders, LAMBDA x : x # e.rider)
                /\ Len(dispatcher'.riders) >= Len(dispatcher.riders) - 1
                /\ dispatcher'.drivers = dispatcher.drivers
                /\ riders'[e.rider].status = CANCELLED
       /\ \A r \in RiderIds :
             riders'[r].status = CANCELLED => ~In(r, dispatcher'.riders)
       /\ (RanKind("DriverRequest") /\ ret' # NoOne) =>
             riders[ret'].status = WAITING]_vars

\* C13 witness: of two riders on the waitlist the first has cancelled and
\* the second is still there.
C13_Witness ==
    /\ cur.kind = "Cancellation"
    /\ riders[cur.rider].status = CANCELLED
    /\ Len(enqueued) = 2
    /\ enqueued[1] = cur.rider
    /\ dispatcher.riders = <<enqueued[2]>>

\* C14: a Pickup or Dropoff whose driver has no destination (end_drive,
\* end_ride without a destination) ends the run in a fault and leaves the
\* driver's location as it was.
C14_EndWithoutDestinationFaults ==
    [][\A e \in BagToSet(events) :
          (e.kind \in {"Pickup", "Dropoff"} /\ Ran(e)
             /\ drivers[e.driver].destination = NoLoc) =>
              /\ pc' = "fault"
              /\ drivers'[e.driver].location = drivers[e.driver].location]_vars

\* C15: run ends only when the loop has emptied the event queue.
C15_RunEndsWithEmptyQueue == pc # "run" => pq_is_empty(events)

\* The descriptions of the activities of a log.
Descriptions(log) == [i \in 1..Len(log) |-> log[i].description]

\* C16: when the run has ended, every rider whose RiderRequest was
\* processed is Cancelled with log Request, Cancel or Satisfied with log
\* Request, Pickup, Dropoff.
C16_RidersResolved ==
    pc # "run" =>
        \A r \in RiderIds :
            Requested(r) =>
                \/ /\ riders[r].status = CANCELLED
                   /\ Descriptions(activities.rider[r]) = <<REQUEST, CANCEL>>
                \/ /\ riders[r].status = SATISFIED
                   /\ Descriptions(activities.rider[r])
                          = <<REQUEST, PICKUP, DROPOFF>>

\* C17: when the queue is empty and no rider's log has two entries, or no
\* driver has a log, report ends in a division by zero and run returns no
\* statistics; a run whose initial events name no driver never returns.
C17_ReportDividesByZero ==
    [][/\ (pc = "run" /\ pq_is_empty(events)
             /\ (resolved(activities) = {} \/ logged(activities) = {})) =>
              /\ pc' = "fault"
              /\ fault' = "ZeroDivisionError"
              /\ report' = NoReport
       /\ (\A d \in DriverIds : initial_events.drivers[d] = AbsentDriver) =>
              pc' # "done"]_vars

\* C17 witness: the run on two RiderRequest events and no DriverRequest has
\* ended in a division by zero, with both riders' logs of two entries.
C17_Witness ==
    /\ pc = "fault"
    /\ fault = "ZeroDivisionError"
    /\ Cardinality(resolved(activities)) = 2
    /\ logged(activities) = {}

\* C18: the distance from A to B is the distance from B to A, the distance
\* from A to A is 0, and the distance is |A.row - B.row| + |A.column -
\* B.column|, which is not negative.
C18_DistanceIsAMetricSum ==
    call.done =>
        LET rows == IF call.origin.row >= call.destination.row
                    THEN call.origin.row - call.destination.row
                    ELSE call.destination.row - call.origin.row
            columns == IF call.origin.column >= call.destination.column
                       THEN call.origin.column - call.destination.column
                       ELSE call.destination.column - call.origin.column
        IN  /\ call.result = call.reverse
            /\ call.self = 0
            /\ call.result = rows + columns
            /\ call.result >= 0

\* C18 witness: the distance between two opposite corners of the grid has
\* been computed.
C18_Witness ==
    /\ call.done
    /\ call.origin = Loc(MaxRow, 0)
    /\ call.destination = Loc(0, MaxCol)
    /\ call.result = MaxRow + MaxCol

\* C19: processing RiderRequest(t, rider) appends a Request activity at the
\* rider's origin to the rider's log and replaces the event in the queue by
\* Cancellation(t + patience, rider), and also by Pickup(t + travel time of
\* the driver to the origin, rider, driver) when request_driver returned a
\* driver: two events when matched, one otherwise.
C19_RiderRequestEmits ==
    [][\A e \in BagToSet(events) :
          (e.kind = "RiderRequest" /\ Ran(e)) =>
              LET r == e.rider
                  t == e.timestamp
                  cancellation == Cancellation(t + riders[r].patience, r)
                  emitted == (events' (+) SetToBag({e})) (-) events
              IN  /\ activities'.rider[r] =
                         Append(activities.rider[r],
                                Activity(t, REQUEST, riders[r].origin))
                  /\ events (-) SetToBag({e}) \sqsubseteq events'
                  /\ IF ret' # NoOne
                     THEN /\ emitted =
                               SetToBag({cancellation,
                                         Pickup(t + TravelTime(drivers[ret'],
                                                    riders[r].origin),
                                                r, ret')})
                          /\ BagCardinality(emitted) = 2
                     ELSE /\ emitted = SetToBag({cancellation})
                          /\ BagCardinality(emitted) = 1]_vars

\* C20: processing DriverRequest(t, driver) appends a Request activity at
\* the driver's location to the driver's log and registers the driver if it
\* is new; with a rider on the waitlist it takes the first off the waitlist
\* and replaces the event in the queue by Pickup(t + travel time to that
\* rider's origin, rider, driver); with the waitlist empty it emits nothing.
C20_DriverRequestEmits ==
    [][\A e \in BagToSet(events) :
          (e.kind = "DriverRequest" /\ Ran(e)) =>
              LET d == e.driver
                  t == e.timestamp
                  emitted == (events' (+) SetToBag({e})) (-) events
              IN  /\ activities'.driver[d] =
                         Append(activities.driver[d],
                                Activity(t, REQUEST, drivers[d].location))
                  /\ dispatcher'.drivers =
                         IF In(d, dispatcher.drivers) THEN dispatcher.drivers
                         ELSE Append(dispatcher.drivers, d)
                  /\ events (-) SetToBag({e}) \sqsubseteq events'
                  /\ IF dispatcher.riders # <<>>
                     THEN LET r == Head(dispatcher.riders)
                          IN  /\ dispatcher'.riders = Tail(dispatcher.riders)
                              /\ emitted =
                                   SetToBag({Pickup(
                                       t + TravelTime(drivers[d],
                                                      riders[r].origin),
                                       r, d)})
                     ELSE /\ dispatcher'.riders = <<>>
                          /\ emitted = EmptyBag]_vars

\* The events the step just taken added to the queue, e being the event it
\* removed.
Emitted(e) == (events' (+) SetToBag({e})) (-) events

\* C21: processing Pickup(t, rider, driver) logs a Driver/Pickup activity
\* and replaces the event in the queue by exactly one event: for a Waiting
\* rider it logs Rider/Pickup at the origin, sets the rider Satisfied, makes
\* the driver busy towards the rider's destination and emits Dropoff(t +
\* ride time, rider, driver); for a Cancelled rider it leaves the rider and
\* its log as they are and emits DriverRequest(t, driver), without failing.
C21_PickupEmits ==
    [][\A e \in BagToSet(events) :
          (e.kind = "Pickup" /\ Ran(e)) =>
              LET r == e.rider
                  d == e.driver
                  t == e.timestamp
                  log == activities'.driver[d]
              IN  /\ Len(log) = Len(activities.driver[d]) + 1
                  /\ SubSeq(log, 1, Len(log) - 1) = activities.driver[d]
                  /\ log[Len(log)].description = PICKUP
                  /\ log[Len(log)].time = t
                  /\ events (-) SetToBag({e}) \sqsubseteq events'
                  /\ BagCardinality(Emitted(e)) = 1
                  /\ riders[r].status = WAITING =>
                        /\ activities'.rider[r] =
                               Append(activities.rider[r],
                                      Activity(t, PICKUP, riders[r].origin))
                        /\ riders'[r].status = SATISFIED
                        /\ ~drivers'[d].is_idle
                        /\ drivers'[d].destination = riders[r].destination
                        /\ Emitted(e) =
                               SetToBag({Dropoff(
                                   t + TravelTime(drivers'[d],
                                                  riders[r].destination),
                                   r, d)})
                  /\ riders[r].status = CANCELLED =>
                        /\ activities'.rider[r] = activities.rider[r]
                        /\ riders'[r] = riders[r]
                        /\ Emitted(e) = SetToBag({DriverRequest(t, d)})
                        /\ pc' = "run"]_vars

\* C22: right after Dropoff(t, rider, driver) is processed the driver is
\* idle, has no destination and is at the rider's destination; the event
\* logs a Dropoff at the rider's destination for the rider and for the
\* driver and replaces itself in the queue by DriverRequest(t, driver).
C22_DropoffEndsRide ==
    [][\A e \in BagToSet(events) :
          (e.kind = "Dropoff" /\ Ran(e)) =>
              LET r == e.rider
                  d == e.driver
                  t == e.timestamp
                  dropoff == Activity(t, DROPOFF, riders[r].destination)
              IN  /\ drivers'[d].is_idle
                  /\ drivers'[d].destination = NoLoc
                  /\ drivers'[d].location = riders[r].destination
                  /\ activities'.rider[r] =
                         Append(activities.rider[r], dropoff)
                  /\ activities'.driver[d] =
                         Append(activities.driver[d], dropoff)
                  /\ events (-) SetToBag({e}) \sqsubseteq events'
                  /\ Emitted(e) = SetToBag({DriverRequest(t, d)})]_vars

\* C23: when a Pickup is processed its driver's destination is the rider's
\* origin, when a Dropoff is processed its driver has a destination, and
\* the location of a driver of the run never becomes none.
C23_DestinationSetWhenEnding ==
    [][/\ \A e \in BagToSet(events) :
            /\ (e.kind = "Pickup" /\ Ran(e)) =>
                   drivers[e.driver].destination = riders[e.rider].origin
            /\ (e.kind = "Dropoff" /\ Ran(e)) =>
                   drivers[e.driver].destination # NoLoc
       /\ \A d \in DriverIds :
             drivers[d].location # NoLoc => drivers'[d].location # NoLoc]_vars

\* The list short is the beginning of the list long.
IsPrefix(short, long) ==
    Len(short) <= Len(long) /\ SubSeq(long, 1, Len(short)) = short

\* The riders whose log holds a Pickup or a Cancel, and for such a rider the
\* time from its Request to that Pickup or Cancel.
Answered(acts) ==
    {r \in RiderIds :
        \E i \in 1..Len(acts.rider[r]) :
            acts.rider[r][i].description \in {PICKUP, CANCEL}}

WaitOf(log) ==
    LET i == CHOOSE k \in 1..Len(log) : log[k].description \in {PICKUP, CANCEL}
        j == CHOOSE k \in 1..Len(log) : log[k].description = REQUEST
    IN  log[i].time - log[j].time

\* C24: each rider's log begins as Request, Pickup, Dropoff or as Request,
\* Cancel does (so it never holds both a Cancel and a Pickup), and the
\* rider_wait_time returned is the sum, over the riders with a Pickup or a
\* Cancel, of the time from the Request to it, divided by their number.
C24_RiderLogShape ==
    /\ \A r \in RiderIds :
          \/ IsPrefix(Descriptions(activities.rider[r]),
                      <<REQUEST, PICKUP, DROPOFF>>)
          \/ IsPrefix(Descriptions(activities.rider[r]), <<REQUEST, CANCEL>>)
    /\ pc = "done" =>
          /\ report.rider_wait_time.num =
                 Sum([r \in RiderIds |-> WaitOf(activities.rider[r])],
                     Answered(activities))
          /\ report.rider_wait_time.den = Cardinality(Answered(activities))

\* C24 witness: a run has returned in which one rider was picked up and
\* dropped off and another cancelled.
C24_Witness ==
    /\ pc = "done"
    /\ \E r \in RiderIds :
          Descriptions(activities.rider[r]) = <<REQUEST, PICKUP, DROPOFF>>
    /\ \E r \in RiderIds :
          Descriptions(activities.rider[r]) = <<REQUEST, CANCEL>>

\* C25: a step leaves a log as it is or adds one activity at its end, with
\* the timestamp of the event processed, and the timestamps of a log never
\* decrease along it.
C25_LogsAppendOnly ==
    [][\A category \in {RIDER, DRIVER} :
          \A identifier \in DOMAIN activities[category] :
              LET old == activities[category][identifier]
                  new == activities'[category][identifier]
              IN  /\ \/ new = old
                     \/ /\ Len(new) = Len(old) + 1
                        /\ SubSeq(new, 1, Len(old)) = old
                        /\ new[Len(new)].time = cur'.timestamp
                  /\ \A i \in 1..(Len(new) - 1) :
                        new[i].time <= new[i + 1].time]_vars

\* C25 witness: a driver's log holds a second ride, later than the first
\* request.
C25_Witness ==
    \E d \in DriverIds :
        /\ Len(activities.driver[d]) >= 6
        /\ activities.driver[d][1].time < activities.driver[d][6].time

\* C26: when run returns, driver_total_distance is the distance the drivers
\* with a log have driven, the sum of the distances of the moves end_drive
\* and end_ride made, divided by the number of those drivers.
C26_TotalDistanceIsDistanceDriven ==
    pc = "done" =>
        /\ report.driver_total_distance.num = Sum(driven, logged(activities))
        /\ report.driver_total_distance.den = Cardinality(logged(activities))

C28_FollowUpsNotEarlier ==
    [][\A e \in BagToSet(events) :
          Ran(e) =>
              /\ \A f \in BagToSet(Emitted(e)) :
                    /\ f.timestamp >= e.timestamp
                    /\ f.kind = "DriverRequest" => f.timestamp = e.timestamp
              /\ \A f \in BagToSet(events') :
                    f.timestamp >= cur'.timestamp]_vars

\* C28 witness: a driver asks for a rider again after a drive and a ride
\* that took time.
C28_Witness ==
    /\ cur.kind = "DriverRequest"
    /\ Len(activities.driver[cur.driver]) = 4
    /\ activities.driver[cur.driver][1].time
           < activities.driver[cur.driver][2].time
    /\ activities.driver[cur.driver][2].time
           < activities.driver[cur.driver][3].time

\* The largest patience among the riders of a set.
MaxPatience(S) ==
    IF S = {} THEN 0
    ELSE LET r == CHOOSE x \in S : \A y \in S :
                      riders[x].patience >= riders[y].patience
         IN  riders[r].patience

\* C29: for every rider whose log has two entries, the time from the first
\* to the second is at most the rider's patience, and equal to it when the
\* second is a Cancel; the rider_wait_time returned is at most the largest
\* patience of those riders.
C29_WaitWithinPatience ==
    /\ \A r \in resolved(activities) :
          LET log == activities.rider[r]
          IN  /\ log[2].time - log[1].time <= riders[r].patience
              /\ log[2].description = CANCEL =>
                    log[2].time - log[1].time = riders[r].patience
    /\ pc = "done" =>
          report.rider_wait_time.num
              <= MaxPatience(resolved(activities)) * report.rider_wait_time.den

\* C29 witness: a run has returned in which one rider cancelled and another
\* was picked up at the very time its patience ran out.
C29_Witness ==
    /\ pc = "done"
    /\ \E r \in resolved(activities) :
          activities.rider[r][2].description = CANCEL
    /\ \E r \in resolved(activities) :
          /\ activities.rider[r][2].description = PICKUP
          /\ activities.rider[r][2].time - activities.rider[r][1].time
                 = riders[r].patience

\* How often x is in a list.
Count(list, x) == Cardinality({i \in 1..Len(list) : list[i] = x})

\* The Pickup events of the queue for rider r.
PickupsFor(queue, r) ==
    Sum([e \in BagToSet(queue) |->
            IF e.kind = "Pickup" /\ e.rider = r THEN CopiesIn(e, queue) ELSE 0],
        BagToSet(queue))

\* How often rider r has been given a driver.
Given(r) == (IF r \in assigned THEN 1 ELSE 0) + Count(returned, r)

\* C30: a Pickup event for a rider enters the queue only in the step in
\* which request_driver or request_rider gave the rider a driver; a rider
\* is given a driver at most once, by request_driver or, after it entered
\* the waitlist, by request_rider, never by both, and is never on the
\* waitlist twice.
C30_OnePickupPerRider ==
    [][\A r \in RiderIds :
          /\ PickupsFor(events', r) > PickupsFor(events, r) =>
                /\ PickupsFor(events', r) = PickupsFor(events, r) + 1
                /\ Given(r)' = Given(r) + 1
          /\ Given(r)' <= 1
          /\ r \in assigned' => ~In(r, enqueued')
          /\ In(r, returned') => In(r, enqueued')
          /\ Count(enqueued', r) <= 1
          /\ Count(dispatcher'.riders, r) <= 1]_vars

\* C30 witness: one rider was given a driver by request_driver and another
\* by request_rider, and both have been picked up.
C30_Witness ==
    /\ \E r \in assigned : riders[r].status = SATISFIED
    /\ \E r \in RiderIds : In(r, returned) /\ riders[r].status = SATISFIED

\* Rider r asked for a driver when drivers were registered and none was
\* idle: its RiderRequest was processed without fault, gave it no driver
\* and did not put it on the waitlist.
Unserved(r) ==
    /\ Requested(r)
    /\ r \notin assigned
    /\ ~In(r, enqueued)
    /\ ~(pc = "fault" /\ cur = RiderRequest(cur.timestamp, r))

\* C31: once a DriverRequest has been processed the waitlist never gains a
\* rider; a rider whose RiderRequest found drivers registered and none idle
\* is never picked up, and when the run has ended it is Cancelled, its log
\* being its request followed by a Cancel at request time + patience.
C31_UnservedRiderIsCancelled ==
    [][/\ Len(dispatcher.drivers) > 0 =>
              Len(dispatcher'.riders) <= Len(dispatcher.riders)
       /\ \A r \in RiderIds :
              Unserved(r)' =>
                  /\ ~Logged(r, PICKUP)'
                  /\ riders'[r].status # SATISFIED
                  /\ pc' # "run" =>
                        /\ riders'[r].status = CANCELLED
                        /\ Len(activities'.rider[r]) = 2
                        /\ activities'.rider[r][2].description = CANCEL
                        /\ activities'.rider[r][2].time
                               = activities'.rider[r][1].time
                                    + riders'[r].patience]_vars

\* C31 reached: a rider found the only driver busy, the driver then became
\* idle and asked for a rider while that rider was still Waiting.
C31_Reached ==
    \E r \in RiderIds :
        /\ Unserved(r)
        /\ riders[r].status = WAITING
        /\ cur.kind = "DriverRequest"
        /\ cur.timestamp > activities.rider[r][1].time
        /\ drivers[cur.driver].is_idle

\* C32: in the report of a run that returns, driver_total_distance is at
\* least driver_ride_distance, and so it is driver by driver: the total
\* distance of a driver's log is at least its ride distance.
C32_TotalAtLeastRide ==
    pc = "done" =>
        /\ report.driver_total_distance.num * report.driver_ride_distance.den
               >= report.driver_ride_distance.num
                      * report.driver_total_distance.den
        /\ \A d \in logged(activities) :
               total_distance(activities.driver[d])
                   >= ride_distance(activities.driver[d])

\* C33: pop_ on a queue that is not empty returns its first item, the one
\* added earliest among those still in it, and removes that item and no
\* other, so that items leave the queue in the order add put them in.
C33_PopIsFifo ==
    [][(/\ call.op = "Queue"
        /\ call'.last = "pop_"
        /\ Len(call'.items) < Len(call.items)) =>
           /\ call'.result = Head(call.items)
           /\ call'.items = Tail(call.items)]_vars

====
